---- MODULE Spec2Model ----
(***************************************************************************)
(* llm_parser_filter: factories (get_parser, get_filter, get_html_parser,  *)
(* get_pdf_parser) returning closures that call a remote chat model        *)
(* through a LangChain chain, a process-wide rate limiter, and a           *)
(* TokenUsageLogger callback appending one JSON line per call to a log     *)
(* file.                                                                   *)
(*                                                                         *)
(* Source: src/llm_parser_filter/core.py, text_conversion.py.              *)
(* Library objects the source constructs (InMemoryRateLimiter,             *)
(* JsonOutputParser, StrOutputParser, the callback manager) are modelled   *)
(* by what langchain_core does for them; each such definition says so.     *)
(***************************************************************************)
EXTENDS Integers, Sequences, FiniteSets, TLC

(***************************************************************************)
(* Bounds of the model                                                     *)
(***************************************************************************)
\* closures built by the factories in one run
MaxClosures == 1
\* closure invocations in one run (Spec)
MaxCalls == 2
\* the clock stops here (milliseconds)
MaxNow == 204
\* concurrent callers of rate_limiter.acquire (SpecLimiter)
NumCallers == 7
\* concurrent writers of one log file (SpecLog)
NumWriters == 3
\* length of the generated model responses (SpecCoerce, SpecJson)
MaxLen == 3
MaxBody == 2

(***************************************************************************)
(* Program constants                                                       *)
(***************************************************************************)
\* core.py:23  requests_per_second=500
RequestsPerSecond == 500
\* core.py:24  check_every_n_seconds=0.1, in milliseconds
CheckEveryMs == 100
\* core.py:25  max_bucket_size=5
MaxBucketSize == 5
\* tokens are kept in thousandths: elapsed_ms * RequestsPerSecond is the
\* refill in thousandths of a token, OneToken is 1.0
OneToken == 1000

\* core.py:20
DEFAULT_LOG_FILE == <<"llm_token_usage.log">>

\* Python's None / the empty string (both falsy for `or` and `not`)
None == <<>>

Threads == {1}
Callers == 1..NumCallers
Writers == 1..NumWriters

(***************************************************************************)
(* Strings. An error text is a sequence of fragments; an f-string is the   *)
(* concatenation of its fragments.                                         *)
(***************************************************************************)
Contains(s, sub) ==
    \E i \in 0..(Len(s) - Len(sub)) : SubSeq(s, i + 1, i + Len(sub)) = sub

\* os.path.dirname on a path given by its components
Dirname(p) == IF Len(p) = 0 THEN <<>> ELSE SubSeq(p, 1, Len(p) - 1)

\* Path(d).mkdir(parents=True, exist_ok=True): d and all its ancestors exist
\* afterwards; Path("") is the current directory, which exists
Mkdir(dirs, d) == dirs \cup {SubSeq(d, 1, k) : k \in 1..Len(d)}

ValueError(msg) == [type |-> "ValueError", msg |-> msg]

(***************************************************************************)
(* Boolean coercion: get_filter.filter_text, core.py:245-247              *)
(***************************************************************************)
\* str.strip() removes these from both ends
Whitespace == {" ", "\n", "\t"}

RECURSIVE LStrip(_)
LStrip(s) ==
    IF Len(s) > 0 /\ Head(s) \in Whitespace THEN LStrip(Tail(s)) ELSE s

RECURSIVE RStrip(_)
RStrip(s) ==
    IF Len(s) > 0 /\ s[Len(s)] \in Whitespace
    THEN RStrip(SubSeq(s, 1, Len(s) - 1))
    ELSE s

\* str.strip()
Strip(s) == RStrip(LStrip(s))

\* str.lower() on one character
LowerChar(c) ==
    CASE c = "Y" -> "y"
      [] c = "E" -> "e"
      [] c = "S" -> "s"
      [] c = "T" -> "t"
      [] c = "R" -> "r"
      [] c = "U" -> "u"
      [] c = "N" -> "n"
      [] c = "O" -> "o"
      [] OTHER -> c

\* str.lower()
Lower(s) == [i \in 1..Len(s) |-> LowerChar(s[i])]

\* the tuple ("yes", "true", "1") of core.py:246
TruthyTexts == {<<"y", "e", "s">>, <<"t", "r", "u", "e">>, <<"1">>}

\* A chain result: text (kind "str") or another Python value.
StrVal(s) == [kind |-> "str", s |-> s, b |-> FALSE, n |-> 0]
BoolVal(b) == [kind |-> "bool", s |-> <<>>, b |-> b, n |-> 0]
IntVal(n) == [kind |-> "int", s |-> <<>>, b |-> FALSE, n |-> n]
NoneVal == [kind |-> "none", s |-> <<>>, b |-> FALSE, n |-> 0]
ListVal(n) == [kind |-> "list", s |-> <<>>, b |-> FALSE, n |-> n]

\* bool(x): Python truthiness (a list is given by its length)
Truthiness(x) ==
    CASE x.kind = "bool" -> x.b
      [] x.kind = "int" -> x.n # 0
      [] x.kind = "list" -> x.n # 0
      [] x.kind = "str" -> Len(x.s) # 0
      [] OTHER -> FALSE

\* a plausible slip: the comparison without .strip()
coerce_no_strip(result) ==
    IF result.kind = "str"
    THEN Lower(result.s) \in TruthyTexts
    ELSE Truthiness(result)

\* a plausible slip: the comparison without .lower()
coerce_no_lower(result) ==
    IF result.kind = "str"
    THEN Strip(result.s) \in TruthyTexts
    ELSE Truthiness(result)

\* core.py:245-247
\*   if isinstance(result, str):
\*       return result.strip().lower() in ("yes", "true", "1")
\*   return bool(result)
coerce_boolean(result) ==
    IF result.kind = "str"
    THEN Lower(Strip(result.s)) \in TruthyTexts
    ELSE Truthiness(result)

(***************************************************************************)
(* JSON. A text is a sequence of characters; json.loads is a recursive     *)
(* descent over it. P*(s, i) is the index after the construct that starts  *)
(* at i, or 0 when there is none (JSONDecodeError).                        *)
(***************************************************************************)
JsonWs == {" ", "\n", "\t"}

\* null and true; false is one character longer and parses the same way
Literals == {<<"n", "u", "l", "l">>, <<"t", "r", "u", "e">>}

RECURSIVE SkipWs(_, _)
SkipWs(s, i) ==
    IF i <= Len(s) /\ s[i] \in JsonWs THEN SkipWs(s, i + 1) ELSE i

RECURSIVE PNumber(_, _)
PNumber(s, i) ==
    IF i <= Len(s) /\ s[i] = "1" THEN PNumber(s, i + 1) ELSE i

\* i is the index after the opening quote
RECURSIVE PStringBody(_, _)
PStringBody(s, i) ==
    IF i > Len(s) THEN 0
    ELSE IF s[i] = "\"" THEN i + 1
    ELSE PStringBody(s, i + 1)

RECURSIVE PValue(_, _)
RECURSIVE PElems(_, _)
RECURSIVE PMembers(_, _)
PValue(s, i) ==
    LET j == SkipWs(s, i) IN
    IF j > Len(s) THEN 0
    ELSE CASE s[j] = "1" -> PNumber(s, j)
           [] s[j] = "\"" -> PStringBody(s, j + 1)
           [] j + 3 <= Len(s) /\ SubSeq(s, j, j + 3) \in Literals -> j + 4
           [] s[j] = "[" ->
                LET k == SkipWs(s, j + 1) IN
                IF k <= Len(s) /\ s[k] = "]" THEN k + 1 ELSE PElems(s, j + 1)
           [] s[j] = "{" ->
                LET k == SkipWs(s, j + 1) IN
                IF k <= Len(s) /\ s[k] = "}" THEN k + 1 ELSE PMembers(s, j + 1)
           [] OTHER -> 0

PElems(s, i) ==
    LET e == PValue(s, i) IN
    IF e = 0 THEN 0
    ELSE LET k == SkipWs(s, e) IN
         IF k > Len(s) THEN 0
         ELSE IF s[k] = "," THEN PElems(s, k + 1)
         ELSE IF s[k] = "]" THEN k + 1
         ELSE 0

PMembers(s, i) ==
    LET j == SkipWs(s, i) IN
    IF j > Len(s) \/ s[j] # "\"" THEN 0
    ELSE LET e == PStringBody(s, j + 1) IN
         IF e = 0 THEN 0
         ELSE LET k == SkipWs(s, e) IN
              IF k > Len(s) \/ s[k] # ":" THEN 0
              ELSE LET v == PValue(s, k + 1) IN
                   IF v = 0 THEN 0
                   ELSE LET m == SkipWs(s, v) IN
                        IF m > Len(s) THEN 0
                        ELSE IF s[m] = "," THEN PMembers(s, m + 1)
                        ELSE IF s[m] = "}" THEN m + 1
                        ELSE 0

\* json.loads(s) succeeds: one value, then only whitespace
JsonValid(s) ==
    LET e == PValue(s, 1) IN e # 0 /\ SkipWs(s, e) > Len(s)

\* The value json.loads(s) returns, for a valid s: the document with the
\* whitespace outside its strings removed (two documents denote the same
\* value iff they agree on it).
RECURSIVE JsonValueFrom(_, _, _)
JsonValueFrom(s, i, inStr) ==
    IF i > Len(s) THEN <<>>
    ELSE IF inStr
         THEN <<s[i]>> \o JsonValueFrom(s, i + 1, s[i] # "\"")
         ELSE IF s[i] \in JsonWs THEN JsonValueFrom(s, i + 1, FALSE)
              ELSE <<s[i]>> \o JsonValueFrom(s, i + 1, s[i] = "\"")

JsonValue(s) == JsonValueFrom(s, 1, FALSE)

\* The outcome of a parse: a value, or the error raised.
Parsed(v) == [ok |-> TRUE, value |-> v]
JSONDecodeError == [ok |-> FALSE, value |-> <<>>]

\* json.loads
json_loads(s) == IF JsonValid(s) THEN Parsed(JsonValue(s)) ELSE JSONDecodeError

(***************************************************************************)
(* JsonOutputParser (core.py:174), as langchain_core implements it:        *)
(* output_parsers/json.py parse_result and utils/json.py                   *)
(* parse_json_markdown, _parse_json, parse_partial_json.                   *)
(***************************************************************************)
\* the scan of parse_partial_json: the closers still owed and whether the
\* text ends inside a string; bad when a closer does not match
RECURSIVE Scan(_, _, _, _)
Scan(s, i, stack, inStr) ==
    IF i > Len(s) THEN [bad |-> FALSE, stack |-> stack, inStr |-> inStr]
    ELSE IF inStr THEN Scan(s, i + 1, stack, s[i] # "\"")
    ELSE CASE s[i] = "\"" -> Scan(s, i + 1, stack, TRUE)
           [] s[i] = "{" -> Scan(s, i + 1, Append(stack, "}"), FALSE)
           [] s[i] = "[" -> Scan(s, i + 1, Append(stack, "]"), FALSE)
           [] s[i] \in {"}", "]"} ->
                IF Len(stack) > 0 /\ stack[Len(stack)] = s[i]
                THEN Scan(s, i + 1, SubSeq(stack, 1, Len(stack) - 1), FALSE)
                ELSE [bad |-> TRUE, stack |-> stack, inStr |-> FALSE]
           [] OTHER -> Scan(s, i + 1, stack, FALSE)

Reverse(q) == [i \in 1..Len(q) |-> q[Len(q) + 1 - i]]

\* while new_chars: try json.loads(new_chars + stack) except: new_chars.pop()
\* and, when nothing is left, json.loads(s), which raises
RECURSIVE TryShorter(_, _, _)
TryShorter(chars, k, closers) ==
    IF k = 0 THEN JSONDecodeError
    ELSE LET r == json_loads(SubSeq(chars, 1, k) \o closers) IN
         IF r.ok THEN r ELSE TryShorter(chars, k - 1, closers)

\* Python's None, which a mismatched closer makes parse_partial_json return
PyNone == Parsed(<<"n", "u", "l", "l">>)

\* a plausible slip: the loop drops a character before its first attempt
parse_partial_json_pop_first(s) ==
    LET sc == Scan(s, 1, <<>>, FALSE)
        chars == IF sc.inStr THEN Append(s, "\"") ELSE s
    IN  IF sc.bad THEN PyNone
        ELSE TryShorter(chars, Len(chars) - 1, Reverse(sc.stack))

\* langchain_core.utils.json.parse_partial_json
parse_partial_json(s) ==
    LET first == json_loads(s)
        sc == Scan(s, 1, <<>>, FALSE)
        chars == IF sc.inStr THEN Append(s, "\"") ELSE s
    IN  IF first.ok THEN first
        ELSE IF sc.bad THEN PyNone
        ELSE TryShorter(chars, Len(chars), Reverse(sc.stack))

\* the backtick character (the lexer of TLA+ does not take it in a string)
Backtick == "BACKTICK"

\* the characters _parse_json strips from both ends (_json_strip_chars)
JsonStripChars == {" ", "\n", "\t", Backtick}

RECURSIVE LStripOf(_, _)
LStripOf(s, cs) ==
    IF Len(s) > 0 /\ Head(s) \in cs THEN LStripOf(Tail(s), cs) ELSE s

RECURSIVE RStripOf(_, _)
RStripOf(s, cs) ==
    IF Len(s) > 0 /\ s[Len(s)] \in cs
    THEN RStripOf(SubSeq(s, 1, Len(s) - 1), cs)
    ELSE s

\* langchain_core.utils.json._parse_json
parse_json(json_str) ==
    parse_partial_json(RStripOf(LStripOf(json_str, JsonStripChars), JsonStripChars))

Fence == <<Backtick, Backtick, Backtick>>

\* _json_markdown_re.search(s).group(2): what follows the first fence and an
\* optional "json" tag; or s itself when the text holds no fence
AfterFence(s) ==
    IF ~Contains(s, Fence) THEN s
    ELSE LET i == CHOOSE k \in 1..Len(s) :
                    /\ k + 2 <= Len(s)
                    /\ SubSeq(s, k, k + 2) = Fence
                    /\ \A m \in 1..(k - 1) :
                          ~(m + 2 <= Len(s) /\ SubSeq(s, m, m + 2) = Fence)
             rest == SubSeq(s, i + 3, Len(s))
         IN  IF Len(rest) >= 4 /\ SubSeq(rest, 1, 4) = <<"j", "s", "o", "n">>
             THEN SubSeq(rest, 5, Len(rest))
             ELSE rest

\* langchain_core.utils.json.parse_json_markdown
parse_json_markdown(json_string) ==
    LET r == parse_json(json_string) IN
    IF r.ok THEN r ELSE parse_json(AfterFence(json_string))

\* JsonOutputParser.parse_result(partial=False): the value, or
\* OutputParserException("Invalid json output: ...") for a JSONDecodeError
JsonOutputParser(text) == parse_json_markdown(Strip(text))

\* StrOutputParser: the message text as it is
StrOutputParser(text) == StrVal(text)

(***************************************************************************)
(* The rate limiter: core.py:22-26 constructs one InMemoryRateLimiter at   *)
(* import; _consume and acquire are langchain_core.rate_limiters'.         *)
(* Time is in milliseconds; tokens are in thousandths.                     *)
(***************************************************************************)
\* last = None
NoTime == -1

\* InMemoryRateLimiter.__init__: available_tokens = 0.0, last = None
rate_limiter == [available_tokens |-> 0, last |-> NoTime]

Min(a, b) == IF a <= b THEN a ELSE b

\* a plausible slip: the bucket is not capped at max_bucket_size
consume_uncapped(b, t) ==
    LET last == IF b.last = NoTime THEN t ELSE b.last
        elapsed == t - last
        refill == elapsed * RequestsPerSecond >= OneToken
        tokens == IF refill
                  THEN b.available_tokens + elapsed * RequestsPerSecond
                  ELSE b.available_tokens
        ok == tokens >= OneToken
    IN  [ok |-> ok,
         bucket |-> [available_tokens |-> IF ok THEN tokens - OneToken ELSE tokens,
                     last |-> IF refill THEN t ELSE last]]

\* a plausible slip: the elapsed time adds no tokens to the bucket
consume_no_refill(b, t) ==
    LET last == IF b.last = NoTime THEN t ELSE b.last
        tokens == Min(b.available_tokens, MaxBucketSize * OneToken)
        ok == tokens >= OneToken
    IN  [ok |-> ok,
         bucket |-> [available_tokens |-> IF ok THEN tokens - OneToken ELSE tokens,
                     last |-> last]]

\* InMemoryRateLimiter._consume, under its lock, at time t:
\*   if self.last is None: self.last = now
\*   elapsed = now - self.last
\*   if elapsed * self.requests_per_second >= 1:
\*       self.available_tokens += elapsed * self.requests_per_second
\*       self.last = now
\*   self.available_tokens = min(self.available_tokens, self.max_bucket_size)
\*   if self.available_tokens >= 1: self.available_tokens -= 1; return True
\*   return False
consume(b, t) ==
    LET last == IF b.last = NoTime THEN t ELSE b.last
        elapsed == t - last
        refill == elapsed * RequestsPerSecond >= OneToken
        tokens == Min(IF refill
                      THEN b.available_tokens + elapsed * RequestsPerSecond
                      ELSE b.available_tokens,
                      MaxBucketSize * OneToken)
        ok == tokens >= OneToken
    IN  [ok |-> ok,
         bucket |-> [available_tokens |-> IF ok THEN tokens - OneToken ELSE tokens,
                     last |-> IF refill THEN t ELSE last]]

(***************************************************************************)
(* The environment, the file system, the factories                         *)
(***************************************************************************)
ApiKeys == {None, <<"sk-test">>}
EnvLogFile == <<"logs", "test_run.log">>
ArgLogFile == <<"out", "usage.log">>
LogPaths == {DEFAULT_LOG_FILE, EnvLogFile, ArgLogFile}

Providers == {"openai", "anthropic", "invalid_provider"}
Factories == {"get_parser", "get_filter", "get_html_parser", "get_pdf_parser"}

NoError == [type |-> "", msg |-> <<>>]

\* a plausible slip: the environment variable goes before the argument
TokenUsageLogger_env_first(function_name, log_file, e) ==
    [function_name |-> function_name,
     log_file |-> IF e.LLM_TOKEN_LOG_FILE # None THEN e.LLM_TOKEN_LOG_FILE
                  ELSE IF log_file # None THEN log_file
                  ELSE DEFAULT_LOG_FILE]

\* TokenUsageLogger.__init__, core.py:31-42 (the mkdir is in Factory)
\*   self.log_file = log_file or os.getenv('LLM_TOKEN_LOG_FILE') or DEFAULT_LOG_FILE
TokenUsageLogger(function_name, log_file, e) ==
    [function_name |-> function_name,
     log_file |-> IF log_file # None THEN log_file
                  ELSE IF e.LLM_TOKEN_LOG_FILE # None THEN e.LLM_TOKEN_LOG_FILE
                  ELSE DEFAULT_LOG_FILE]

\* what a factory call gives: the error raised, or the chat model
NoLLM == [provider |-> "", api_key |-> None, rate_limiter |-> FALSE]

\* a plausible slip: the provider and the key are not checked at construction
create_llm_unchecked(provider, e) ==
    [raised |-> FALSE, err |-> NoError,
     llm |-> [provider |-> provider, api_key |-> e.OPENAI_API_KEY,
              rate_limiter |-> provider = "openai"]]

\* create_llm, core.py:106-125, after the callbacks of line 104
create_llm(provider, e) ==
    IF provider = "openai"
    THEN IF e.OPENAI_API_KEY = None
         THEN [raised |-> TRUE,
               err |-> ValueError(<<"OPENAI_API_KEY environment variable is not set">>),
               llm |-> NoLLM]
         ELSE [raised |-> FALSE, err |-> NoError,
               llm |-> [provider |-> "openai", api_key |-> e.OPENAI_API_KEY,
                        rate_limiter |-> TRUE]]
    ELSE IF provider = "anthropic"
    THEN [raised |-> FALSE, err |-> NoError,
          llm |-> [provider |-> "anthropic", api_key |-> None,
                   rate_limiter |-> FALSE]]
    ELSE [raised |-> TRUE,
          err |-> ValueError(<<"Unsupported provider: ", provider>>),
          llm |-> NoLLM]

\* function_name each factory passes to create_llm: get_html_parser and
\* get_pdf_parser build their chain with get_parser (core.py:278, 317)
FunctionName(f) == IF f = "get_filter" THEN "filter" ELSE "parser"

VARIABLES
    env,          \* os.environ: OPENAI_API_KEY, LLM_TOKEN_LOG_FILE
    dirs,         \* the directories that exist
    files,        \* the content of each log file, a sequence of characters
    closures,     \* the closures the factories returned
    lastFactory,  \* the latest factory call and what it did
    th,           \* the threads invoking closures
    now,          \* time.monotonic(), in milliseconds
    bucket,       \* the state of rate_limiter
    diag,         \* failures printed by log_to_file
    stats,        \* history: calls started, remote calls, records due
    callers,      \* SpecLimiter: the callers of rate_limiter.acquire
    burst,        \* SpecLimiter: history of the attempts at the latest instant
    writers,      \* SpecLog: the threads inside log_to_file
    pin,          \* SpecCoerce, SpecJson: the input
    pout          \* SpecCoerce, SpecJson: the result

vars == <<env, dirs, files, closures, lastFactory, th, now, bucket, diag,
          stats, callers, burst, writers, pin, pout>>

(***************************************************************************)
(* TokenUsageLogger: the records and log_to_file, core.py:44-79            *)
(***************************************************************************)
\* a value json.dumps rejects (TypeError: not JSON serializable)
Unserializable == "<object>"

\* error_log of on_llm_error, core.py:57-63 (the timestamp is left out)
error_log(function_name, error) ==
    <<"error", function_name>> \o error.msg \o <<error.type>>

\* usage_log of on_llm_end, core.py:70-78 (the timestamp is left out)
usage_log(function_name, llm_output) ==
    <<"token_usage", function_name, llm_output.model_name, llm_output.token_usage>>

Serializable(data) == \A i \in 1..Len(data) : data[i] # Unserializable

\* json.dumps(data) of a serializable record: one JSON object, no newline
json_dumps(data) == <<"{">> \o data \o <<"}">>

\* a plausible slip: the file is opened without append mode, so the data
\* goes to the position the handle had when it was opened
write_at_open_position(content, pos, buf) ==
    SubSeq(content, 1, pos) \o buf
        \o SubSeq(content, pos + Len(buf) + 1, Len(content))

\* open(self.log_file, 'a'), core.py:47: every write of the handle goes to
\* the end of the file as it is at the write (O_APPEND), whatever the
\* position pos the handle had when it was opened
file_write(content, pos, buf) == content \o buf

\* log_to_file, core.py:44-53, run in one piece; fs says how the file
\* system answers ("ok", "open_fails", "write_fails").
\*   try: open; json.dumps(data) + '\n'; write
\*   except Exception as e: print(...); print(... json.dumps(data) ...)
\* The handler's own json.dumps raises again for a record that cannot be
\* serialized.
log_to_file(content, data, fs) ==
    LET failed == fs # "ok" \/ ~Serializable(data) IN
    [content |-> IF failed THEN content
                 ELSE file_write(content, Len(content),
                                 json_dumps(data) \o <<"\n">>),
     printed |-> IF failed THEN 1 ELSE 0,
     raised |-> ~Serializable(data)]

NoLog(content) == [content |-> content, printed |-> 0, raised |-> FALSE]

\* a plausible slip: the error callback does not write a record
on_llm_error_silent(content, function_name, error, fs) == NoLog(content)

\* on_llm_error, core.py:55-64
on_llm_error(content, function_name, error, fs) ==
    log_to_file(content, error_log(function_name, error), fs)

\* response.llm_output of a provider: None/empty, or the usage and model
NoLlmOutput == [present |-> FALSE, model_name |-> "", token_usage |-> ""]
LlmOutputs ==
    {NoLlmOutput,
     [present |-> TRUE, model_name |-> "gpt-3.5-turbo", token_usage |-> "12+3=15"],
     [present |-> TRUE, model_name |-> Unserializable, token_usage |-> "12+3=15"]}

\* on_llm_end, core.py:66-79
on_llm_end(content, function_name, llm_output, fs) ==
    IF llm_output.present
    THEN log_to_file(content, usage_log(function_name, llm_output), fs)
    ELSE NoLog(content)

\* the number of lines of a file
RECURSIVE CountNewlines(_)
CountNewlines(content) ==
    IF Len(content) = 0 THEN 0
    ELSE (IF Head(content) = "\n" THEN 1 ELSE 0) + CountNewlines(Tail(content))

(***************************************************************************)
(* Text extraction as the closures see it: text_conversion.py              *)
(***************************************************************************)
HtmlInputs == {"html_str", "html_b64_not_utf8"}
PdfInputs == {"pdf_raw", "pdf_invalid"}

\* html2text, text_conversion.py:18-31: bytes are base64-decoded and then
\* decoded as UTF-8, and what that raises is re-raised (line 31)
html2text(inp) ==
    IF inp = "html_b64_not_utf8"
    THEN [ok |-> FALSE, text |-> <<>>,
          err |-> [type |-> "UnicodeDecodeError",
                   msg |-> <<"'utf-8' codec can't decode byte">>]]
    ELSE [ok |-> TRUE, text |-> <<"plain text of", inp>>, err |-> NoError]

\* pdf2text, text_conversion.py:43-68: what pdfplumber.open raises on bytes
\* that are no document is re-raised (line 68)
pdf2text(inp) ==
    IF inp = "pdf_invalid"
    THEN [ok |-> FALSE, text |-> <<>>,
          err |-> [type |-> "PDFSyntaxError",
                   msg |-> <<"No /Root object! - Is this really a PDF?">>]]
    ELSE [ok |-> TRUE, text |-> <<"plain text of", inp>>, err |-> NoError]

(***************************************************************************)
(* The closures: what they return and raise                                *)
(***************************************************************************)
NoVal == [kind |-> "none", json |-> <<>>, b |-> FALSE]
JsonResult(v) == [kind |-> "json", json |-> v, b |-> FALSE]
BoolResult(b) == [kind |-> "bool", json |-> <<>>, b |-> b]

NoOutcome == [kind |-> "none", val |-> NoVal, err |-> NoError]
Return(v) == [kind |-> "return", val |-> v, err |-> NoError]
Raise(e) == [kind |-> "raise", val |-> NoVal, err |-> e]

\* a plausible slip: the exception is swallowed and None is returned
parse_except_swallow(e) == Return(NoVal)

\* get_parser.parse, core.py:183-184
parse_except(e) == Raise(ValueError(<<"Failed to parse text: ">> \o e.msg))

\* get_filter.filter_text, core.py:248-249
filter_except(e) == Raise(ValueError(<<"Failed to filter text: ">> \o e.msg))

\* a plausible slip: the extraction error is re-raised as it is
parse_html_except_verbatim(e) == Raise(e)

\* get_html_parser.parse_html, core.py:287-288
parse_html_except(e) ==
    Raise(ValueError(<<"Failed to parse HTML content: ">> \o e.msg))

\* get_pdf_parser.parse_pdf, core.py:326-327
parse_pdf_except(e) ==
    Raise(ValueError(<<"Failed to parse PDF content: ">> \o e.msg))

\* what the closure of factory f raises when its chain raises e: parse_html
\* and parse_pdf call the closure of get_parser inside their own try
ChainRaises(f, e) ==
    CASE f = "get_parser" -> parse_except(e)
      [] f = "get_filter" -> filter_except(e)
      [] f = "get_html_parser" ->
            LET inner == parse_except(e) IN
            IF inner.kind = "raise" THEN parse_html_except(inner.err) ELSE inner
      [] OTHER ->
            LET inner == parse_except(e) IN
            IF inner.kind = "raise" THEN parse_pdf_except(inner.err) ELSE inner

\* the chain's output parser and what the closure makes of its result:
\* JsonOutputParser for the parsers (core.py:174), StrOutputParser and the
\* coercion for the filter (core.py:235, 245-247)
ChainOutput(f, text) ==
    IF f = "get_filter"
    THEN Return(BoolResult(coerce_boolean(StrOutputParser(text))))
    ELSE LET r == JsonOutputParser(text) IN
         IF r.ok THEN Return(JsonResult(r.value))
         ELSE ChainRaises(f, [type |-> "OutputParserException",
                              msg |-> <<"Invalid json output: ">> \o text])

(***************************************************************************)
(* The state machine of the closures (Spec)                                *)
(***************************************************************************)
\* what a provider answers: the message text and llm_output
MainTexts == {<<"[", "1", "]">>, <<"[", "1">>, <<" ", "Y", "e", "s">>}
NoResp == [text |-> <<>>, llm_output |-> NoLlmOutput]
Responses == [text : MainTexts, llm_output : LlmOutputs]

\* what a provider client raises
ProviderErrors ==
    {[type |-> "APIConnectionError", msg |-> <<"Connection error.">>]}

FsOutcomes == {"ok", "open_fails", "write_fails"}

IdleThread ==
    [pc |-> "idle", c |-> 0, input |-> "", text |-> <<>>,
     acquired |-> FALSE, wake |-> 0,
     resp |-> NoResp, exc |-> NoError, xerr |-> NoError,
     logFailed |-> FALSE, logRaised |-> FALSE, out |-> NoOutcome]

NoFactory ==
    [called |-> FALSE, provider |-> "", key |-> None, raised |-> FALSE,
     err |-> NoError, returned |-> FALSE]

IdleCaller == [pc |-> "idle", first |-> NoTime, wake |-> 0, waited |-> 0]

IdleWriter == [pc |-> "idle", pos |-> 0, buf |-> <<>>, fs |-> "ok"]

InitEnv == [OPENAI_API_KEY |-> <<"sk-test">>, LLM_TOKEN_LOG_FILE |-> None]

\* the state after the package is imported
InitProgram ==
    /\ env = InitEnv
    /\ dirs = {<<>>}
    /\ files = [p \in LogPaths |-> <<>>]
    /\ closures = <<>>
    /\ lastFactory = NoFactory
    /\ th = [t \in Threads |-> IdleThread]
    /\ now = 0
    /\ bucket = rate_limiter
    /\ diag = 0
    /\ stats = [calls |-> 0, remote |-> 0, completed |-> 0, due |-> 0]

\* nobody is inside rate_limiter.acquire (SpecLimiter)
NoBurst == [avail |-> 0, tried |-> 0, admitted |-> 0, issued |-> 0,
            issuedAdmitted |-> 0]
InitCallers == callers = [c \in Callers |-> IdleCaller] /\ burst = NoBurst

\* nobody is inside log_to_file (SpecLog)
InitWriters == writers = [w \in Writers |-> IdleWriter]

\* no result is being converted (SpecCoerce, SpecJson)
Pending == [state |-> "pending", out |-> NoOutcome]
InitPure == pin = StrVal(<<>>) /\ pout = Pending

Init == InitProgram /\ InitCallers /\ InitWriters /\ InitPure

\* the process environment changes (os.environ is assigned, as conftest.py
\* does for LLM_TOKEN_LOG_FILE)
SetEnv ==
    /\ \E k \in ApiKeys, lf \in {None, EnvLogFile} :
          /\ env' = [OPENAI_API_KEY |-> k, LLM_TOKEN_LOG_FILE |-> lf]
          /\ env' # env
    /\ UNCHANGED <<dirs, files, closures, lastFactory, th, now, bucket, diag,
                   stats, callers, burst, writers, pin, pout>>

\* get_parser, get_filter, get_html_parser, get_pdf_parser (core.py:127-329):
\* each calls create_llm, which builds the TokenUsageLogger (line 104, with
\* the mkdir of lines 41-42) and then checks the provider and the key; the
\* closure exists only when create_llm returned.
Factory(f, provider, log_file) ==
    LET logger == TokenUsageLogger(FunctionName(f), log_file, env)
        made == create_llm(provider, env)
    IN  /\ made.raised \/ Len(closures) < MaxClosures
        /\ dirs' = Mkdir(dirs, Dirname(logger.log_file))
        /\ closures' =
              IF made.raised THEN closures
              ELSE Append(closures,
                          [factory |-> f, llm |-> made.llm, logger |-> logger,
                           \* history: the log_file argument and the
                           \* environment of this factory call
                           asked |-> log_file,
                           envAt |-> env.LLM_TOKEN_LOG_FILE])
        /\ lastFactory' =
              [called |-> TRUE, provider |-> provider,
               key |-> env.OPENAI_API_KEY, raised |-> made.raised,
               err |-> made.err, returned |-> closures' # closures]
        /\ UNCHANGED <<env, files, th, now, bucket, diag, stats, callers, burst,
                       writers, pin, pout>>

InputsOf(f) ==
    CASE f = "get_html_parser" -> HtmlInputs
      [] f = "get_pdf_parser" -> PdfInputs
      [] OTHER -> {"text"}

\* where the chain starts: BaseChatModel waits for the rate limiter it was
\* given, if any, and then calls the provider
ChainStart(c) == IF closures[c].llm.rate_limiter THEN "acquire" ELSE "remote"

\* a thread calls a closure; text is what the closure gives to its chain
Invoke(t, c, inp) ==
    /\ th[t].pc = "idle"
    /\ stats.calls < MaxCalls
    /\ inp \in InputsOf(closures[c].factory)
    /\ th' = [th EXCEPT ![t] =
                [IdleThread EXCEPT
                   !.pc = IF closures[c].factory \in {"get_html_parser", "get_pdf_parser"}
                          THEN "extract" ELSE ChainStart(c),
                   !.c = c, !.input = inp,
                   !.text = IF closures[c].factory \in {"get_html_parser", "get_pdf_parser"}
                            THEN <<>> ELSE <<inp>>]]
    /\ stats' = [stats EXCEPT !.calls = @ + 1]
    /\ UNCHANGED <<env, dirs, files, closures, lastFactory, now, bucket, diag,
                   callers, burst, writers, pin, pout>>

\* a plausible slip: the conversion's failure is passed over and the
\* standard parser is called with the input as it came
Extract_then_parse_anyway(t) ==
    LET f == closures[th[t].c].factory
        x == IF f = "get_html_parser" THEN html2text(th[t].input)
             ELSE pdf2text(th[t].input)
    IN  /\ th[t].pc = "extract"
        /\ th' = [th EXCEPT ![t] =
                    [@ EXCEPT !.pc = ChainStart(th[t].c),
                              !.xerr = x.err,
                              !.text = IF x.ok THEN x.text ELSE <<th[t].input>>]]
        /\ UNCHANGED <<env, dirs, files, closures, lastFactory, now, bucket,
                       diag, stats, callers, burst, writers, pin, pout>>

\* parse_html / parse_pdf, core.py:282-288 and 321-327: the conversion, and
\* the except clause when it raises
Extract(t) ==
    LET f == closures[th[t].c].factory
        x == IF f = "get_html_parser" THEN html2text(th[t].input)
             ELSE pdf2text(th[t].input)
    IN  /\ th[t].pc = "extract"
        /\ th' = [th EXCEPT ![t] =
                    IF x.ok THEN [@ EXCEPT !.pc = ChainStart(th[t].c),
                                           !.text = x.text]
                    ELSE [@ EXCEPT !.pc = "done", !.xerr = x.err,
                            !.out = IF f = "get_html_parser"
                                    THEN parse_html_except(x.err)
                                    ELSE parse_pdf_except(x.err)]]
        /\ UNCHANGED <<env, dirs, files, closures, lastFactory, now, bucket,
                       diag, stats, callers, burst, writers, pin, pout>>

\* rate_limiter.acquire(blocking=True): one _consume; when it fails the
\* thread sleeps check_every_n_seconds and tries again
Acquire(t) ==
    LET r == consume(bucket, now) IN
    /\ th[t].pc = "acquire"
    /\ bucket' = r.bucket
    /\ th' = [th EXCEPT ![t] =
                IF r.ok THEN [@ EXCEPT !.pc = "remote", !.acquired = TRUE]
                ELSE [@ EXCEPT !.pc = "sleep", !.wake = now + CheckEveryMs]]
    /\ UNCHANGED <<env, dirs, files, closures, lastFactory, now, diag, stats,
                   callers, burst, writers, pin, pout>>

\* time.sleep(check_every_n_seconds) is over
Wake(t) ==
    /\ th[t].pc = "sleep"
    /\ now >= th[t].wake
    /\ th' = [th EXCEPT ![t].pc = "acquire"]
    /\ UNCHANGED <<env, dirs, files, closures, lastFactory, now, bucket, diag,
                   stats, callers, burst, writers, pin, pout>>

\* the clock moves on by one check interval while a thread sleeps
Tick ==
    /\ \E t \in Threads : th[t].pc = "sleep" /\ now < th[t].wake
    /\ now + CheckEveryMs <= MaxNow
    /\ now' = now + CheckEveryMs
    /\ UNCHANGED <<env, dirs, files, closures, lastFactory, th, bucket, diag,
                   stats, callers, burst, writers, pin, pout>>

\* the provider call of the chat model answers or raises
Remote(t) ==
    /\ th[t].pc = "remote"
    /\ \/ \E r \in Responses : th' = [th EXCEPT ![t].pc = "callback", ![t].resp = r]
       \/ \E e \in ProviderErrors : th' = [th EXCEPT ![t].pc = "callback", ![t].exc = e]
    /\ stats' = [stats EXCEPT !.remote = @ + 1]
    /\ UNCHANGED <<env, dirs, files, closures, lastFactory, now, bucket, diag,
                   callers, burst, writers, pin, pout>>

\* the callback manager runs the TokenUsageLogger: on_llm_end after an
\* answer, on_llm_error after an exception, which then goes on to the
\* closure's except clause. An exception a handler raises is caught by the
\* callback manager (handle_event logs a warning; raise_error is False).
Callback(t) ==
    LET cl == closures[th[t].c]
        path == cl.logger.log_file
        failedCall == th[t].exc # NoError
    IN  /\ th[t].pc = "callback"
        /\ \E fs \in FsOutcomes :
              LET lg == IF failedCall
                        THEN on_llm_error(files[path], cl.logger.function_name,
                                          th[t].exc, fs)
                        ELSE on_llm_end(files[path], cl.logger.function_name,
                                        th[t].resp.llm_output, fs)
                  written == /\ fs = "ok"
                             /\ \/ failedCall
                                \/ /\ th[t].resp.llm_output.present
                                   /\ th[t].resp.llm_output.model_name # Unserializable
              IN  /\ files' = [files EXCEPT ![path] = lg.content]
                  /\ diag' = diag + lg.printed
                  /\ th' = [th EXCEPT ![t] =
                              [@ EXCEPT
                                 !.pc = IF failedCall THEN "done" ELSE "parse",
                                 !.resp = [@ EXCEPT !.llm_output = NoLlmOutput],
                                 !.logFailed = lg.printed > 0,
                                 !.logRaised = lg.raised,
                                 !.out = IF failedCall
                                         THEN ChainRaises(cl.factory, th[t].exc)
                                         ELSE @]]
                  /\ stats' = [stats EXCEPT !.completed = @ + 1,
                                            !.due = @ + (IF written THEN 1 ELSE 0)]
        /\ UNCHANGED <<env, dirs, closures, lastFactory, now, bucket, callers, burst,
                       writers, pin, pout>>

\* the output parser of the chain, and the closure's return or except
Parse(t) ==
    /\ th[t].pc = "parse"
    /\ th' = [th EXCEPT ![t].pc = "done",
                        ![t].out = ChainOutput(closures[th[t].c].factory,
                                               th[t].resp.text)]
    /\ UNCHANGED <<env, dirs, files, closures, lastFactory, now, bucket, diag,
                   stats, callers, burst, writers, pin, pout>>

\* the caller has the result; the thread is free again
Finish(t) ==
    /\ th[t].pc = "done"
    /\ th' = [th EXCEPT ![t] = IdleThread]
    /\ UNCHANGED <<env, dirs, files, closures, lastFactory, now, bucket, diag,
                   stats, callers, burst, writers, pin, pout>>

Next ==
    \/ SetEnv
    \/ \E f \in Factories, p \in Providers, lf \in {None, ArgLogFile} :
          Factory(f, p, lf)
    \/ \E t \in Threads, c \in 1..Len(closures), inp \in HtmlInputs \cup PdfInputs \cup {"text"} :
          Invoke(t, c, inp)
    \/ \E t \in Threads : Extract(t)
    \/ \E t \in Threads : Acquire(t)
    \/ \E t \in Threads : Wake(t)
    \/ Tick
    \/ \E t \in Threads : Remote(t)
    \/ \E t \in Threads : Callback(t)
    \/ \E t \in Threads : Parse(t)
    \/ \E t \in Threads : Finish(t)

Spec == Init /\ [][Next]_vars

(***************************************************************************)
(* Claims checked under Spec                                               *)
(***************************************************************************)
SupportedProviders == {"openai", "anthropic"}

IsConfigurationError(e) ==
    \/ Contains(e.msg, <<"OPENAI_API_KEY environment variable is not set">>)
    \/ Contains(e.msg, <<"Unsupported provider: ">>)

BadConfiguration(fc) ==
    \/ fc.provider \notin SupportedProviders
    \/ fc.provider = "openai" /\ fc.key = None

\* C1: a factory called with a provider outside {"openai", "anthropic"}, or
\* with "openai" while OPENAI_API_KEY is absent or empty, raises the
\* configuration error itself and returns no closure; every closure that
\* exists was built from a supported provider (with its key, for openai);
\* a remote call is made only through a closure, and no closure ever raises
\* a configuration error when it is invoked.
C1_EagerConfigurationError ==
    /\ (lastFactory.called /\ BadConfiguration(lastFactory)) =>
          /\ lastFactory.raised
          /\ ~lastFactory.returned
          /\ lastFactory.err.type = "ValueError"
          /\ IsConfigurationError(lastFactory.err)
    /\ \A i \in 1..Len(closures) :
          /\ closures[i].llm.provider \in SupportedProviders
          /\ closures[i].llm.provider = "openai" => closures[i].llm.api_key # None
    /\ stats.remote > 0 => Len(closures) > 0
    /\ \A t \in Threads :
          th[t].out.kind = "raise" => ~IsConfigurationError(th[t].out.err)

\* C1 witness: after a closure was built and called, the key is gone and a
\* factory call for openai has raised without returning a closure.
C1_Witness ==
    /\ lastFactory.called
    /\ lastFactory.provider = "openai"
    /\ lastFactory.key = None
    /\ lastFactory.raised
    /\ stats.completed > 0

\* C2, as claimed: a thread that is at, or past, its remote call holds a
\* token it acquired from rate_limiter.
C2_EveryCallRateLimited ==
    \A t \in Threads :
        th[t].pc \in {"remote", "callback", "parse"} => th[t].acquired

\* the records in all log files
TotalRecords ==
    CountNewlines(files[DEFAULT_LOG_FILE]) + CountNewlines(files[EnvLogFile])
        + CountNewlines(files[ArgLogFile])

\* the type field of the last record of a file ("" for an empty file)
LastRecordType(content) ==
    IF \E i \in 1..Len(content) : content[i] = "{"
    THEN LET i == CHOOSE k \in 1..Len(content) :
                    /\ content[k] = "{"
                    /\ \A m \in (k + 1)..Len(content) : content[m] # "{"
         IN  content[i + 1]
    ELSE ""

\* C3, as claimed: after k completed remote calls the log holds exactly k
\* records.
C3_ExactlyOneRecordPerCall == TotalRecords = stats.completed

\* C3, amended: the log holds one record for each completed remote call
\* whose write succeeded and that either failed or answered with llm_output,
\* and none for the others, so never more than one per call; the record of
\* a call is in the file before the closure returns or raises, an error
\* record for a failed call and a token_usage record for an answered one.
C3_AtMostOneRecordPerCall ==
    /\ TotalRecords = stats.due
    /\ stats.due <= stats.completed
    /\ \A t \in Threads :
          (th[t].pc \in {"parse", "done"} /\ th[t].out.kind # "none"
              /\ th[t].exc # NoError /\ ~th[t].logFailed) =>
             LastRecordType(files[closures[th[t].c].logger.log_file]) = "error"
    /\ \A t \in Threads :
          (th[t].pc = "parse" /\ ~th[t].logFailed
              /\ TotalRecords = stats.completed) =>
             LastRecordType(files[closures[th[t].c].logger.log_file]) = "token_usage"

\* C3 witness: two remote calls are complete, one record was written for
\* one of them and none for the other.
C3_Witness == stats.completed = 2 /\ TotalRecords = 1 /\ stats.due = 1

\* C4, as claimed: a failure while writing a record never propagates out of
\* the logger.
C4_LogFailureNeverPropagates ==
    \A t \in Threads : th[t].logFailed => ~th[t].logRaised

\* C7: when the remote call of a closure raises, the closure raises a
\* ValueError whose text contains the message of the provider's exception;
\* it never returns normally and never raises the provider's own type.
C7_InvocationErrorWrapped ==
    \A t \in Threads :
        (th[t].pc = "done" /\ th[t].exc # NoError) =>
            /\ th[t].out.kind = "raise"
            /\ th[t].out.err.type = "ValueError"
            /\ th[t].out.err.type # th[t].exc.type
            /\ Contains(th[t].out.err.msg, th[t].exc.msg)

\* C7 witness: the remote call of a get_parser closure raised and the
\* closure is done.
C7_Witness ==
    \E t \in Threads :
        /\ th[t].pc = "done"
        /\ th[t].exc # NoError
        /\ closures[th[t].c].factory = "get_parser"

\* C8, as claimed: the extraction error reaches the caller as it is.
C8_ExtractionErrorVerbatim ==
    \A t \in Threads :
        (th[t].pc = "done" /\ th[t].xerr # NoError) =>
            th[t].out = Raise(th[t].xerr)

\* C8, amended: when html2text or pdf2text raises, the closure raises a
\* ValueError (the type it also raises for an invocation or a parse
\* failure) whose text is "Failed to parse HTML content: " or "Failed to
\* parse PDF content: " followed by the message of the extraction error;
\* the type of the extraction error is not kept.
C8_ExtractionErrorWrapped ==
    \A t \in Threads :
        (th[t].pc = "done" /\ th[t].xerr # NoError) =>
            /\ th[t].out.kind = "raise"
            /\ th[t].out.err.type = "ValueError"
            /\ th[t].out.err.type # th[t].xerr.type
            /\ th[t].out.err.msg =
                  <<IF closures[th[t].c].factory = "get_html_parser"
                    THEN "Failed to parse HTML content: "
                    ELSE "Failed to parse PDF content: ">> \o th[t].xerr.msg

\* C8 witness: pdf2text raised in a get_pdf_parser closure, which is done.
C8_Witness ==
    \E t \in Threads :
        /\ th[t].pc = "done"
        /\ th[t].xerr # NoError
        /\ closures[th[t].c].factory = "get_pdf_parser"

(***************************************************************************)
(* The conversions of the chain's result, on their own: SpecCoerce for the *)
(* filter closure, SpecJson for the parser closure.                        *)
(***************************************************************************)
SeqsUpTo(A, n) == UNION {[1..k -> A] : k \in 0..n}

\* model responses to a filter prompt
CoerceAlphabet == {"y", "e", "s", "Y", "1", " ", "\n", "t", "T", "n", "o"}
CoerceSamples ==
    {<<" ", "T", "r", "u", "e", " ">>, <<"t", "r", "u", "e">>,
     <<"T", "R", "U", "E", "\n">>, <<"\t", "Y", "E", "S">>,
     <<"f", "a", "l", "s", "e">>, <<"y", "e", "s", ".">>,
     <<"t", "r", " ", "u", "e">>, <<"1", ".", "0">>, <<"0">>}
CoerceTexts == SeqsUpTo(CoerceAlphabet, MaxLen) \cup CoerceSamples

\* results that are no text (what line 247 of core.py is for)
OtherValues ==
    {BoolVal(TRUE), BoolVal(FALSE), IntVal(0), IntVal(1), NoneVal,
     ListVal(0), ListVal(2)}

InitCoerce ==
    /\ InitProgram /\ InitCallers /\ InitWriters
    /\ pin \in {StrVal(s) : s \in CoerceTexts} \cup OtherValues
    /\ pout = Pending

\* filter_text on a response the model gave as text: StrOutputParser, then
\* lines 245-247
FilterText ==
    /\ pout.state = "pending"
    /\ pin.kind = "str"
    /\ pout' = [state |-> "done", out |-> ChainOutput("get_filter", pin.s)]
    /\ UNCHANGED <<env, dirs, files, closures, lastFactory, th, now, bucket,
                   diag, stats, callers, burst, writers, pin>>

\* lines 245-247 on a result that is no text
FilterValue ==
    /\ pout.state = "pending"
    /\ pin.kind # "str"
    /\ pout' = [state |-> "done", out |-> Return(BoolResult(coerce_boolean(pin)))]
    /\ UNCHANGED <<env, dirs, files, closures, lastFactory, th, now, bucket,
                   diag, stats, callers, burst, writers, pin>>

NextCoerce == FilterText \/ FilterValue

SpecCoerce == InitCoerce /\ [][NextCoerce]_vars

\* the same word up to the case of its letters
UpperOf(c) ==
    CASE c = "y" -> "Y" [] c = "e" -> "E" [] c = "s" -> "S" [] c = "t" -> "T"
      [] c = "r" -> "R" [] c = "u" -> "U" [] OTHER -> c

SameIgnoringCase(w, word) ==
    /\ Len(w) = Len(word)
    /\ \A k \in 1..Len(w) : w[k] = word[k] \/ w[k] = UpperOf(word[k])

\* s is word, in any case, between two runs of whitespace
IsPadded(s, word) ==
    \E i \in 1..(Len(s) + 1) :
        /\ i + Len(word) - 1 <= Len(s)
        /\ SameIgnoringCase(SubSeq(s, i, i + Len(word) - 1), word)
        /\ \A k \in 1..(i - 1) : s[k] \in {" ", "\n", "\t"}
        /\ \A k \in (i + Len(word))..Len(s) : s[k] \in {" ", "\n", "\t"}

\* C5: the filter closure returns (never raises) exactly one of true and
\* false; for a text it is true exactly when the text is "yes", "true" or
\* "1" in any case with whitespace around it, and false for every other
\* text, the empty one included; for another value it is its truthiness.
C5_CoercionTotal ==
    pout.state = "done" =>
        /\ pout.out.kind = "return"
        /\ pout.out.val.kind = "bool"
        /\ pin.kind = "str" =>
              (pout.out.val.b <=>
                  \/ IsPadded(pin.s, <<"y", "e", "s">>)
                  \/ IsPadded(pin.s, <<"t", "r", "u", "e">>)
                  \/ IsPadded(pin.s, <<"1">>))
        /\ pin.kind # "str" =>
              (pout.out.val.b <=>
                  \/ pin.kind = "bool" /\ pin.b
                  \/ pin.kind \in {"int", "list"} /\ pin.n # 0)

\* C5 witness: " True " was coerced to true.
C5_Witness ==
    /\ pout.state = "done"
    /\ pin = StrVal(<<" ", "T", "r", "u", "e", " ">>)
    /\ pout.out = Return(BoolResult(TRUE))

\* model responses to a parser prompt
JsonAlphabet == {"[", "]", "{", "}", ",", ":", "1", "\"", "a", " ", Backtick}
JsonSamples ==
    {<<"{", "\"", "a", "\"", ":", "1", "}">>,
     <<"{", "\"", "a", "\"", ":", "1">>,
     <<"{", "\"", "a", "\"", ":", "1", ",", "\"", "a">>,
     <<"[", "1", ",", "1", "]">>,
     <<"[", "1", ",", "[", "1">>,
     <<" ", "[", "1", "]", "\n">>,
     <<"n", "u", "l", "l">>,
     <<"t", "r", "u", "e">>,
     <<Backtick, Backtick, Backtick, "j", "s", "o", "n", "\n", "[", "1", "]",
       "\n", Backtick, Backtick, Backtick>>,
     <<"a", ":", Backtick, Backtick, Backtick, "[", "1", "]", Backtick,
       Backtick, Backtick>>}
JsonTexts == SeqsUpTo(JsonAlphabet, MaxLen) \cup JsonSamples

InitJson ==
    /\ InitProgram /\ InitCallers /\ InitWriters
    /\ pin \in {StrVal(s) : s \in JsonTexts}
    /\ pout = Pending

\* parse on a response: JsonOutputParser at the end of the chain, and the
\* except clause of lines 183-184
ParseText ==
    /\ pout.state = "pending"
    /\ pout' = [state |-> "done", out |-> ChainOutput("get_parser", pin.s)]
    /\ UNCHANGED <<env, dirs, files, closures, lastFactory, th, now, bucket,
                   diag, stats, callers, burst, writers, pin>>

NextJson == ParseText

SpecJson == InitJson /\ [][NextJson]_vars

Closers == SeqsUpTo({"]", "}", "\"", "1"}, 3)

\* s is the beginning of a JSON array or object that was cut off
Truncated(s) ==
    /\ Len(s) > 0
    /\ s[1] \in {"[", "{"}
    /\ ~JsonValid(s)
    /\ \E ext \in Closers : JsonValid(s \o ext)

RefillMs == OneToken \div RequestsPerSecond

\* the instants at which the clock is read: a multiple of the check
\* interval, then one refill interval later, then when the bucket is full
FineOffsets == {0, RefillMs, MaxBucketSize * RefillMs}
Instants == {t \in 0..MaxNow : t % CheckEveryMs \in FineOffsets}

\* the history of the attempts of the present instant, after one more;
\* avail is what the first of them found in the bucket
Attempted(h, r, isFirst) ==
    LET got == IF r.ok THEN 1 ELSE 0
        new == IF isFirst THEN 1 ELSE 0
    IN  [avail |-> IF h.tried = 0
                   THEN r.bucket.available_tokens + got * OneToken
                   ELSE h.avail,
         tried |-> h.tried + 1,
         admitted |-> h.admitted + got,
         issued |-> h.issued + new,
         issuedAdmitted |-> h.issuedAdmitted + new * got]

\* what one _consume at time t does to its caller
AfterAttempt(k, t, r) ==
    IF r.ok
    THEN [pc |-> "admitted", first |-> NoTime, wake |-> 0, waited |-> t - k.first]
    ELSE [k EXCEPT !.pc = "sleep", !.wake = t + CheckEveryMs]

\* a call enters acquire() and makes its first attempt
LimiterAcquire(c) ==
    /\ callers[c].pc = "idle"
    /\ IF c = 1 THEN TRUE ELSE callers[c - 1].pc # "idle"
    /\ LET r == consume(bucket, now) IN
          /\ bucket' = r.bucket
          /\ burst' = Attempted(burst, r, TRUE)
          /\ callers' = [callers EXCEPT
                            ![c] = AfterAttempt([@ EXCEPT !.first = now], now, r)]
    /\ UNCHANGED <<env, dirs, files, closures, lastFactory, th, now, diag,
                   stats, writers, pin, pout>>

\* time.sleep(check_every_n_seconds) is over and the caller tries again
LimiterRetry(c) ==
    /\ callers[c].pc = "sleep"
    /\ now >= callers[c].wake
    /\ LET r == consume(bucket, now) IN
          /\ bucket' = r.bucket
          /\ burst' = Attempted(burst, r, FALSE)
          /\ callers' = [callers EXCEPT ![c] = AfterAttempt(@, now, r)]
    /\ UNCHANGED <<env, dirs, files, closures, lastFactory, th, now, diag,
                   stats, writers, pin, pout>>

\* time.monotonic() moves on to a later instant
LimiterTick ==
    /\ \E t \in Instants :
          /\ t > now
          /\ now' = t
    /\ burst' = NoBurst
    /\ UNCHANGED <<env, dirs, files, closures, lastFactory, th, bucket, diag,
                   stats, callers, writers, pin, pout>>

NextLimiter ==
    \/ \E c \in Callers : LimiterAcquire(c)
    \/ \E c \in Callers : LimiterRetry(c)
    \/ LimiterTick

SpecLimiter == Init /\ [][NextLimiter]_vars

TokensInRange ==
    /\ bucket.available_tokens >= 0
    /\ bucket.available_tokens <= MaxBucketSize * OneToken

\* C9 as stated: of the calls issued at one instant the first 5 are
\* admitted at that instant and a 6th is not admitted before one refill
\* interval has passed, and the bucket holds between 0 and 5 tokens.
C9_BurstAdmittedImmediately ==
    /\ TokensInRange
    /\ burst.issuedAdmitted = Min(burst.issued, MaxBucketSize)
    /\ \A c \in Callers :
          callers[c].pc = "sleep" => callers[c].wake >= callers[c].first + RefillMs

\* C9, amended: the bucket holds between 0 and 5 tokens; the attempts made
\* at one instant are admitted one by one for as long as the tokens found
\* at that instant last, which is 5 attempts when the bucket is full and
\* none on a limiter that was never used; a call that is not admitted at
\* once is admitted no earlier than one check interval (100 ms, which is
\* more than the refill interval) after it was issued.
C9_BurstCeiling ==
    /\ TokensInRange
    /\ burst.admitted <= MaxBucketSize
    /\ burst.admitted = Min(burst.tried, burst.avail \div OneToken)
    /\ (burst.avail = MaxBucketSize * OneToken /\ burst.tried = burst.issued)
          => burst.issuedAdmitted = Min(burst.issued, MaxBucketSize)
    /\ (bucket = rate_limiter /\ burst.tried > 0) => burst.admitted = 0
    /\ CheckEveryMs >= RefillMs
    /\ \A c \in Callers :
          /\ callers[c].pc = "sleep" =>
                callers[c].wake >= callers[c].first + CheckEveryMs
          /\ callers[c].pc = "admitted" =>
                callers[c].waited = 0 \/ callers[c].waited >= CheckEveryMs

\* six calls are issued at one instant at which the bucket is full: five
\* are admitted at once and the sixth sleeps; an earlier call, the first on
\* the limiter, was admitted after its sleep
C9_Witness ==
    /\ burst.avail = MaxBucketSize * OneToken
    /\ burst.issued = MaxBucketSize + 1
    /\ burst.tried = burst.issued
    /\ burst.issuedAdmitted = MaxBucketSize
    /\ \E c \in Callers : callers[c].pc = "sleep" /\ callers[c].first = now
    /\ \E c \in Callers :
          callers[c].pc = "admitted" /\ callers[c].waited >= CheckEveryMs


(***************************************************************************)
(* SpecLog: threads inside log_to_file on the same log file, core.py:44-53 *)
(*     with open(self.log_file, 'a') as f:                                 *)
(*         log_entry = json.dumps(data) + '\n'                             *)
(*         f.write(log_entry)                                              *)
(* Every thread has its own handle. f.write puts the entry into the        *)
(* handle's buffer, and leaving the with block flushes the buffer with one *)
(* write to the file, which the append mode places at the end of the file. *)
(* The threads take these steps in any order.                              *)
(***************************************************************************)
SharedLogFile == DEFAULT_LOG_FILE

\* the record of the call the thread w logs: a usage record from on_llm_end
\* or an error record from on_llm_error
WriterData(w) ==
    IF w % 2 = 1
    THEN usage_log("parser", [model_name |-> "gpt-3.5-turbo",
                              token_usage |-> ToString(w)])
    ELSE error_log("filter", [type |-> "TimeoutError",
                              msg |-> <<"call ", ToString(w)>>])

\* open(self.log_file, 'a'), core.py:47; a failure goes to the handler of
\* lines 51-53, which prints
LogOpen(w) ==
    /\ writers[w].pc = "idle"
    /\ \E fs \in {"ok", "open_fails"} :
          IF fs = "ok"
          THEN /\ writers' = [writers EXCEPT
                                 ![w] = [pc |-> "open",
                                         pos |-> Len(files[SharedLogFile]),
                                         buf |-> <<>>, fs |-> fs]]
               /\ diag' = diag
          ELSE /\ writers' = [writers EXCEPT
                                 ![w] = [pc |-> "done", pos |-> 0,
                                         buf |-> <<>>, fs |-> fs]]
               /\ diag' = diag + 1
    /\ UNCHANGED <<env, dirs, files, closures, lastFactory, th, now, bucket,
                   stats, callers, burst, pin, pout>>

\* log_entry = json.dumps(data) + '\n'; f.write(log_entry), core.py:48-49
LogWrite(w) ==
    /\ writers[w].pc = "open"
    /\ writers' = [writers EXCEPT
                      ![w].pc = "written",
                      ![w].buf = json_dumps(WriterData(w)) \o <<"\n">>]
    /\ UNCHANGED <<env, dirs, files, closures, lastFactory, th, now, bucket,
                   diag, stats, callers, burst, pin, pout>>

\* the with block of core.py:47 is left: the buffer is written to the file;
\* a failure goes to the handler of lines 51-53, which prints
LogClose(w) ==
    /\ writers[w].pc = "written"
    /\ \E fs \in {"ok", "write_fails"} :
          IF fs = "ok"
          THEN /\ files' = [files EXCEPT
                               ![SharedLogFile] =
                                   file_write(@, writers[w].pos, writers[w].buf)]
               /\ writers' = [writers EXCEPT
                                 ![w].pc = "done", ![w].buf = <<>>]
               /\ diag' = diag
          ELSE /\ files' = files
               /\ writers' = [writers EXCEPT
                                 ![w].pc = "done", ![w].buf = <<>>,
                                 ![w].fs = fs]
               /\ diag' = diag + 1
    /\ UNCHANGED <<env, dirs, closures, lastFactory, th, now, bucket,
                   stats, callers, burst, pin, pout>>

NextLog ==
    \/ \E w \in Writers : LogOpen(w)
    \/ \E w \in Writers : LogWrite(w)
    \/ \E w \in Writers : LogClose(w)

SpecLog == Init /\ [][NextLog]_vars

RECURSIVE SplitLines(_)
\* the lines of a file, each without its newline; what follows the last
\* newline is the last element
SplitLines(content) ==
    IF Len(content) = 0 THEN << <<>> >>
    ELSE LET rest == SplitLines(Tail(content)) IN
         IF Head(content) = "\n" THEN << <<>> >> \o rest
         ELSE << <<Head(content)>> \o Head(rest) >> \o Tail(rest)

\* the complete lines of the file, and what is left over after them
LogLines(content) ==
    LET l == SplitLines(content) IN SubSeq(l, 1, Len(l) - 1)

LogRemainder(content) ==
    LET l == SplitLines(content) IN l[Len(l)]

\* the threads whose record was written
Logged == {w \in Writers : writers[w].pc = "done" /\ writers[w].fs = "ok"}

\* C10: whatever the order of the writers' steps, the log file consists of
\* complete lines only, every line is the whole JSON record of one thread
\* that has logged, every such thread has exactly one line, and so N
\* threads that have each logged one call leave exactly N lines.
C10_ConcurrentAppends ==
    LET lines == LogLines(files[SharedLogFile]) IN
    /\ LogRemainder(files[SharedLogFile]) = <<>>
    /\ \A i \in 1..Len(lines) :
          \E w \in Logged : lines[i] = json_dumps(WriterData(w))
    /\ \A w \in Logged :
          Cardinality({i \in 1..Len(lines) :
                          lines[i] = json_dumps(WriterData(w))}) = 1
    /\ Len(lines) = Cardinality(Logged)
    /\ Logged = Writers => CountNewlines(files[SharedLogFile]) = NumWriters

\* all the threads had the file open before any of them wrote, all have
\* logged, and the last thread's record is the first line
C10_Witness ==
    /\ Logged = Writers
    /\ \A w \in Writers : writers[w].pos = 0
    /\ CountNewlines(files[SharedLogFile]) = NumWriters
    /\ LogLines(files[SharedLogFile])[1] = json_dumps(WriterData(NumWriters))


(***************************************************************************)
(* SpecAcquire: the callers of rate_limiter.acquire() over unbounded time. *)
(* The limiter reads only differences of clock readings, so the clock is   *)
(* kept at Epoch and the recorded times move back instead when time        *)
(* passes. A time further back than matters is kept at the furthest that   *)
(* matters: the bucket is full FillMs after its last refill, a sleeper is  *)
(* awake at its wake time, and a call's age is kept up to Epoch.           *)
(***************************************************************************)
\* the time an empty bucket takes to fill
FillMs == MaxBucketSize * RefillMs

Epoch == CheckEveryMs + FillMs

Max(a, b) == IF a >= b THEN a ELSE b

\* the time t as it reads after the clock was moved back by shift
Rebased(t, shift, floor) == IF t = NoTime THEN NoTime ELSE Max(t - shift, floor)

\* time.monotonic() moves on by d
AcquireTick ==
    /\ \E d \in {FillMs, CheckEveryMs} :
          LET shift == now + d - Epoch IN
          /\ now' = Epoch
          /\ bucket' = [bucket EXCEPT
                           !.last = Rebased(@, shift, Epoch - FillMs)]
          /\ callers' = [c \in Callers |->
                            IF callers[c].pc = "sleep"
                            THEN [callers[c] EXCEPT
                                     !.first = Rebased(@, shift, 0),
                                     !.wake = Rebased(@, shift, Epoch)]
                            ELSE callers[c]]
    /\ burst' = NoBurst
    /\ UNCHANGED <<env, dirs, files, closures, lastFactory, th, diag,
                   stats, writers, pin, pout>>

NextAcquire ==
    \/ \E c \in Callers : LimiterAcquire(c)
    \/ \E c \in Callers : LimiterRetry(c)
    \/ AcquireTick

\* time passes, and a thread whose sleep is over runs; nothing makes a new
\* call arrive
SpecAcquire ==
    /\ Init
    /\ [][NextAcquire]_vars
    /\ WF_vars(AcquireTick)
    /\ \A c \in Callers : WF_vars(LimiterRetry(c))

AncestorDirs(p) == {SubSeq(p, 1, k) : k \in 0..(Len(p) - 1)}

\* the destination by the stated precedence: the path passed, else the
\* environment variable as it was then, else the default file name
ResolvedAt(asked, envThen) ==
    IF asked # None THEN asked
    ELSE IF envThen # None THEN envThen
    ELSE DEFAULT_LOG_FILE

\* C12: the log destination of a closure is the one resolved at its factory
\* call by the precedence argument, environment variable, default; its
\* directory and the directories above it exist from then on, so before the
\* first write; and records are only ever in the resolved files of the
\* closures, whatever the environment variable has become since.
C12_LogDestinationResolvedOnce ==
    /\ \A c \in 1..Len(closures) :
          /\ closures[c].logger.log_file
                = ResolvedAt(closures[c].asked, closures[c].envAt)
          /\ AncestorDirs(closures[c].logger.log_file) \subseteq dirs
    /\ \A p \in LogPaths :
          files[p] # <<>> =>
             \E c \in 1..Len(closures) : closures[c].logger.log_file = p
    /\ \A t \in Threads :
          (th[t].pc = "done" /\ th[t].out.kind # "none"
              /\ th[t].exc # NoError /\ ~th[t].logFailed) =>
             files[closures[th[t].c].logger.log_file] # <<>>

\* a closure was built while LLM_TOKEN_LOG_FILE named a file in a directory
\* that did not exist, the variable was unset afterwards, and the record of
\* a later call is in the file the variable named at the factory call
C12_Witness ==
    /\ Len(closures) >= 1
    /\ closures[1].asked = None
    /\ closures[1].envAt = EnvLogFile
    /\ env.LLM_TOKEN_LOG_FILE = None
    /\ files[EnvLogFile] # <<>>
    /\ files[DEFAULT_LOG_FILE] = <<>>
    /\ Dirname(EnvLogFile) \in dirs


(***************************************************************************)
(* pdf2text on bytes: text_conversion.py:43-68. Bytes are numbers 0..255,  *)
(* base64 text is the bytes of its ASCII characters.                       *)
(***************************************************************************)
\* '='
Pad == 61

\* the ASCII code of the base64 digit i: A-Z, a-z, 0-9, '+', '/'
B64Char(i) ==
    IF i < 26 THEN 65 + i
    ELSE IF i < 52 THEN 97 + (i - 26)
    ELSE IF i < 62 THEN 48 + (i - 52)
    ELSE IF i = 62 THEN 43
    ELSE 47

IsB64Char(c) == \E i \in 0..63 : B64Char(i) = c

B64Index(c) == CHOOSE i \in 0..63 : B64Char(i) = c

RECURSIVE b64encode(_)
\* base64.b64encode: 3 bytes give 4 digits, the rest is padded with '='
b64encode(bytes) ==
    IF Len(bytes) = 0 THEN <<>>
    ELSE IF Len(bytes) = 1
    THEN <<B64Char(bytes[1] \div 4), B64Char((bytes[1] % 4) * 16), Pad, Pad>>
    ELSE IF Len(bytes) = 2
    THEN <<B64Char(bytes[1] \div 4),
           B64Char((bytes[1] % 4) * 16 + bytes[2] \div 16),
           B64Char((bytes[2] % 16) * 4), Pad>>
    ELSE <<B64Char(bytes[1] \div 4),
           B64Char((bytes[1] % 4) * 16 + bytes[2] \div 16),
           B64Char((bytes[2] % 16) * 4 + bytes[3] \div 64),
           B64Char(bytes[3] % 64)>>
         \o b64encode(SubSeq(bytes, 4, Len(bytes)))

\* bytes.replace / str.replace of one character
Replace(data, old, new) ==
    [i \in 1..Len(data) |-> IF data[i] = old THEN new ELSE data[i]]

\* base64.urlsafe_b64encode: '+' becomes '-', '/' becomes '_'
urlsafe_b64encode(bytes) == Replace(Replace(b64encode(bytes), 43, 45), 47, 95)

RECURSIVE RStripPad(_)
\* rstrip('='), as senders of URL-safe base64 do
RStripPad(data) ==
    IF Len(data) > 0 /\ data[Len(data)] = Pad
    THEN RStripPad(SubSeq(data, 1, Len(data) - 1))
    ELSE data

\* the number of '=' at the end of the data, counted up to 3
Padding(data) ==
    IF Len(data) >= 3 /\ data[Len(data)] = Pad /\ data[Len(data) - 1] = Pad
          /\ data[Len(data) - 2] = Pad THEN 3
    ELSE IF Len(data) >= 2 /\ data[Len(data)] = Pad /\ data[Len(data) - 1] = Pad
    THEN 2
    ELSE IF Len(data) >= 1 /\ data[Len(data)] = Pad THEN 1
    ELSE 0

\* what validate=True accepts: digits only, then at most two '=', and a
\* length that is a multiple of 4
B64Valid(data) ==
    /\ Len(data) % 4 = 0
    /\ Padding(data) <= 2
    /\ \A i \in 1..(Len(data) - Padding(data)) : IsB64Char(data[i])

RECURSIVE B64Bytes(_)
\* the bytes of valid base64 data
B64Bytes(data) ==
    IF Len(data) = 0 THEN <<>>
    ELSE LET a == B64Index(data[1])
             b == B64Index(data[2])
             rest == SubSeq(data, 5, Len(data))
         IN  IF data[3] = Pad
             THEN <<a * 4 + b \div 16>>
             ELSE LET c == B64Index(data[3]) IN
                  IF data[4] = Pad
                  THEN <<a * 4 + b \div 16, (b % 16) * 16 + c \div 4>>
                  ELSE <<a * 4 + b \div 16, (b % 16) * 16 + c \div 4,
                         (c % 4) * 64 + B64Index(data[4])>>
                       \o B64Bytes(rest)

\* base64.b64decode(data, validate=True): the bytes, or binascii.Error
b64decode(data) ==
    IF B64Valid(data) THEN [ok |-> TRUE, bytes |-> B64Bytes(data)]
    ELSE [ok |-> FALSE, bytes |-> <<>>]

\* pdf_content.decode('ascii') raises on a byte above 127
IsAscii(data) == \A i \in 1..Len(data) : data[i] < 128

\* text_conversion.py:52-54
RepairPadding(data) ==
    LET missing_padding == Len(data) % 4 IN
    IF missing_padding # 0
    THEN data \o [i \in 1..(4 - missing_padding) |-> Pad]
    ELSE data

\* a plausible slip: the URL-safe attempt repairs the padding only
urlsafe_no_replace(pdf_content) ==
    IF IsAscii(pdf_content) THEN b64decode(RepairPadding(pdf_content))
    ELSE [ok |-> FALSE, bytes |-> <<>>]

\* text_conversion.py:51-55, the URL-safe attempt
urlsafe_decode(pdf_content) ==
    IF IsAscii(pdf_content)
    THEN b64decode(RepairPadding(Replace(Replace(pdf_content, 45, 43), 95, 47)))
    ELSE [ok |-> FALSE, bytes |-> <<>>]

\* text_conversion.py:45-58: the bytes handed to pdfplumber
pdf_bytes(pdf_content) ==
    IF b64decode(pdf_content).ok THEN b64decode(pdf_content).bytes
    ELSE IF urlsafe_decode(pdf_content).ok THEN urlsafe_decode(pdf_content).bytes
    ELSE pdf_content

\* "%PDF": what a document starts with
PdfHeader == <<37, 80, 68, 70>>

\* pdfplumber.open succeeds on a document
Parseable(bytes) ==
    /\ Len(bytes) >= Len(PdfHeader)
    /\ SubSeq(bytes, 1, Len(PdfHeader)) = PdfHeader

\* the text of the pages of a document: here, what follows the header
extract_text(bytes) == SubSeq(bytes, Len(PdfHeader) + 1, Len(bytes))

PdfSyntaxError ==
    [type |-> "PDFSyntaxError", msg |-> <<"No /Root object! - Is this really a PDF?">>]

\* text_conversion.py:61-68: pdfplumber on the bytes; its error is re-raised
pdfplumber_text(bytes) ==
    IF Parseable(bytes)
    THEN [ok |-> TRUE, text |-> extract_text(bytes), err |-> NoError]
    ELSE [ok |-> FALSE, text |-> <<>>, err |-> PdfSyntaxError]

\* pdf2text on bytes, text_conversion.py:43-68
pdf2text_bytes(pdf_content) == pdfplumber_text(pdf_bytes(pdf_content))

(***************************************************************************)
(* SpecPdf: a byte string is encoded in one of the forms a caller may send *)
(* and pdf2text is applied to it.                                          *)
(***************************************************************************)
\* bytes whose base64 digits include '+' and '/', a byte above 127, a low
\* byte and a letter
ByteSamples == {0, 65, 62, 251, 255}

BodiesUpTo(n) == UNION {[1..k -> ByteSamples] : k \in 0..n}

\* documents, and byte strings that are no document, base64 text among them
PdfDocs == {PdfHeader \o b : b \in BodiesUpTo(MaxBody)}
NonDocs == BodiesUpTo(MaxBody) \cup {<<65, 65, 65, 65>>, <<37, 80, 68>>,
                                     <<65, 45, 95, 65>>, <<65, 65, 61>>}

Forms == {"raw", "standard", "urlsafe", "urlsafe_unpadded"}

Encoded(form, bytes) ==
    CASE form = "raw" -> bytes
      [] form = "standard" -> b64encode(bytes)
      [] form = "urlsafe" -> urlsafe_b64encode(bytes)
      [] OTHER -> RStripPad(urlsafe_b64encode(bytes))

InitPdf ==
    /\ InitProgram /\ InitCallers /\ InitWriters
    /\ pin \in {[doc |-> d, form |-> "none", data |-> <<>>] :
                    d \in PdfDocs \cup NonDocs}
    /\ pout = Pending

\* the caller picks the form in which it sends the bytes
PdfEncode ==
    /\ pin.form = "none"
    /\ \E form \in Forms :
          pin' = [pin EXCEPT !.form = form, !.data = Encoded(form, pin.doc)]
    /\ UNCHANGED <<env, dirs, files, closures, lastFactory, th, now, bucket,
                   diag, stats, callers, burst, writers, pout>>

\* pdf2text(pdf_content)
PdfToText ==
    /\ pin.form # "none"
    /\ pout = Pending
    /\ pout' = [state |-> "done", out |-> pdf2text_bytes(pin.data)]
    /\ UNCHANGED <<env, dirs, files, closures, lastFactory, th, now, bucket,
                   diag, stats, callers, burst, writers, pin>>

NextPdf == PdfEncode \/ PdfToText

SpecPdf == InitPdf /\ [][NextPdf]_vars

\* the byte strings the three attempts of the claim can give for an input
Candidates(data) ==
    {data}
       \cup (IF b64decode(data).ok THEN {b64decode(data).bytes} ELSE {})
       \cup (IF urlsafe_decode(data).ok THEN {urlsafe_decode(data).bytes} ELSE {})

\* C13: for every document, pdf2text of its raw bytes, of its standard
\* base64 encoding and of its URL-safe base64 encoding (padded or not) all
\* return the text of that document; and an input for which neither the
\* strict base64 decoding, nor the URL-safe decoding, nor the input itself
\* is a parseable document raises an error.
C13_SameTextForAllEncodings ==
    pout.state = "done" =>
       /\ Parseable(pin.doc) =>
             /\ pout.out.ok
             /\ pout.out.text = extract_text(pin.doc)
       /\ (\A b \in Candidates(pin.data) : ~Parseable(b)) => ~pout.out.ok

\* a document whose URL-safe encoding has a '-' or a '_', so that the strict
\* decoding fails and the URL-safe attempt gives the bytes, was converted
C13_Witness ==
    /\ pout.state = "done"
    /\ pin.form \in {"urlsafe", "urlsafe_unpadded"}
    /\ \E i \in 1..Len(pin.data) : pin.data[i] \in {45, 95}
    /\ ~b64decode(pin.data).ok
    /\ pout.out.ok
    /\ Len(pout.out.text) > 0


(***************************************************************************)
(* The order of extraction and the standard parse path                     *)
(***************************************************************************)
Extracting == {"get_html_parser", "get_pdf_parser"}

\* the conversion of the input of the thread t
ExtractionOf(t) ==
    IF closures[th[t].c].factory = "get_html_parser"
    THEN html2text(th[t].input)
    ELSE pdf2text(th[t].input)

\* the thread t is in the standard parse path: at the rate limiter, at the
\* provider, in the callback or at the output parser
InParsePath(t) ==
    \/ th[t].pc \in {"acquire", "sleep", "remote", "callback", "parse"}
    \/ th[t].pc = "done" /\ th[t].xerr = NoError

\* the thread t is in a call of parse_html / parse_pdf whose conversion has
\* not succeeded: it is not done yet, or it has failed
NotExtracted(t) ==
    \/ th[t].pc = "extract"
    \/ th[t].pc = "done" /\ th[t].xerr # NoError

\* C14: in a closure of get_html_parser / get_pdf_parser the standard parse
\* path is entered only after the conversion succeeded and with the text it
\* returned; and from the call until the end of an invocation whose
\* conversion fails no token is taken from the bucket, no remote call is
\* made and nothing is written to a log file.
C14_ExtractionBeforeParsePath ==
    /\ [](\A t \in Threads :
             (th[t].pc # "idle" /\ closures[th[t].c].factory \in Extracting) =>
                /\ InParsePath(t) =>
                      /\ ExtractionOf(t).ok
                      /\ th[t].text = ExtractionOf(t).text
                /\ NotExtracted(t) =>
                      /\ ~th[t].acquired
                      /\ th[t].resp = NoResp
                      /\ th[t].exc = NoError)
    /\ [][(\E t \in Threads : th[t].pc # "idle" /\ NotExtracted(t)) =>
             /\ bucket' = bucket
             /\ files' = files
             /\ stats'.remote = stats.remote]_vars

\* a closure of get_html_parser / get_pdf_parser was called twice: the
\* first call extracted its text and made a remote call, the second failed
\* in the conversion and has raised, with no further remote call
C14_Witness ==
    \E t \in Threads :
       /\ th[t].pc = "done"
       /\ closures[th[t].c].factory \in Extracting
       /\ th[t].xerr # NoError
       /\ th[t].out.kind = "raise"
       /\ stats.calls = 2
       /\ stats.remote = 1

====
